---- MODULE Spec2Model ----
(***************************************************************************)
(* Model of src/app/app.py: the /abap/selectionscreen endpoint, its        *)
(* validation, the model call, extract_json_from_text and the loop that    *)
(* removes `type` from the extracted declarations.                         *)
(*                                                                         *)
(* A text is a sequence of tokens.  Each token stands for a fixed piece of *)
(* the character string:                                                   *)
(*   "F"  the three-backtick fence marker                                  *)
(*   "J"  the letters json                                                 *)
(*   "W"  one whitespace character                                         *)
(*   "x"  a word of prose (letters only)                                   *)
(*   "[" "]" "{" "}" ","  themselves                                       *)
(*   "T"  the member  "type":"P"                                           *)
(*   "N"  the member  "name":"X"                                           *)
(*   "K"  the key and colon  "o":   (a value follows)                      *)
(*   "0"  the number 0                                                     *)
(* No token but "F" holds a backtick, none but "W" holds whitespace, and   *)
(* brackets and braces are tokens of their own, so the two regular         *)
(* expressions and json.loads see on the tokens what they see on the       *)
(* characters.                                                             *)
(***************************************************************************)
EXTENDS Integers, Sequences, FiniteSets, TLC

\* ------------------------------------------------------------------------
\* JSON values, as json.loads builds them.  One record shape for every value
\* so that any two values can be compared.
\* ------------------------------------------------------------------------
Num(n) == [k |-> "num", a |-> "", n |-> n, keys |-> <<>>, items |-> <<>>]
Str(a) == [k |-> "str", a |-> a, n |-> 0, keys |-> <<>>, items |-> <<>>]
Arr(items) == [k |-> "arr", a |-> "", n |-> 0, keys |-> <<>>, items |-> items]
Obj(keys, items) == [k |-> "obj", a |-> "", n |-> 0, keys |-> keys, items |-> items]
\* json.JSONDecodeError raised by json.loads
ParseError == [k |-> "error", a |-> "", n |-> 0, keys |-> <<>>, items |-> <<>>]

IsWs(c) == c = "W"

\* the one element of a singleton.  {e(x) : x \in {v}} computes v once and
\* names it x in e, which is how the definitions below name a value they
\* read more than once.
Only(S) == CHOOSE x \in S : TRUE

\* least and greatest element of a nonempty set of positions
Min(S) == Only({CHOOSE x \in P : \A y \in P : x <= y : P \in {S}})
Max(S) == Only({CHOOSE x \in P : \A y \in P : y <= x : P \in {S}})

\* first position >= p of s that holds no whitespace (Len(s) + 1 when none)
SkipWs(s, p) ==
  Only({IF rest = {} THEN Len(s) + 1 ELSE Min(rest) :
          rest \in {{j \in p..Len(s) : ~IsWs(s[j])}}})

\* dict[key] = value: a repeated key keeps its place and takes the new value
DictPut(keys, items, key, val) ==
  IF \E i \in 1..Len(keys) : keys[i] = key
  THEN [ks |-> keys,
        vs |-> [i \in 1..Len(items) |-> IF keys[i] = key THEN val ELSE items[i]]]
  ELSE [ks |-> Append(keys, key), vs |-> Append(items, val)]

Bad == [v |-> ParseError, p |-> 0]

RECURSIVE ParseValue(_, _), ParseElems(_, _, _), ParseMembers(_, _, _, _)

\* the decoder's scan of one value starting at s[i]: the value and the
\* position after it
ParseValue(s, i) ==
  IF i > Len(s) THEN Bad
  ELSE IF s[i] = "0" THEN [v |-> Num(0), p |-> i + 1]
  ELSE IF s[i] = "[" THEN
    Only({IF j <= Len(s) /\ s[j] = "]"
          THEN [v |-> Arr(<<>>), p |-> j + 1]
          ELSE ParseElems(s, j, <<>>) : j \in {SkipWs(s, i + 1)}})
  ELSE IF s[i] = "{" THEN
    Only({IF j <= Len(s) /\ s[j] = "}"
          THEN [v |-> Obj(<<>>, <<>>), p |-> j + 1]
          ELSE ParseMembers(s, j, <<>>, <<>>) : j \in {SkipWs(s, i + 1)}})
  ELSE Bad

\* what follows an array element r
AfterElem(s, r, acc) ==
  Only({IF j > Len(s) THEN Bad
        ELSE IF s[j] = "]" THEN [v |-> Arr(Append(acc, r.v)), p |-> j + 1]
        ELSE IF s[j] = "," THEN ParseElems(s, SkipWs(s, j + 1), Append(acc, r.v))
        ELSE Bad : j \in {SkipWs(s, r.p)}})

\* the elements of an array, an element expected at s[i]
ParseElems(s, i, acc) ==
  Only({IF r.v.k = "error" THEN Bad ELSE AfterElem(s, r, acc) :
          r \in {ParseValue(s, i)}})

\* what follows a member that ended before s[q]; d is the dict so far
AfterMember(s, q, d) ==
  Only({IF j > Len(s) THEN Bad
        ELSE IF s[j] = "}" THEN [v |-> Obj(d.ks, d.vs), p |-> j + 1]
        ELSE IF s[j] = "," THEN ParseMembers(s, SkipWs(s, j + 1), d.ks, d.vs)
        ELSE Bad : j \in {SkipWs(s, q)}})

\* the members of an object, a member expected at s[i]
ParseMembers(s, i, keys, items) ==
  IF i > Len(s) THEN Bad
  ELSE IF s[i] = "T" THEN
    Only({AfterMember(s, i + 1, d) : d \in {DictPut(keys, items, "type", Str("P"))}})
  ELSE IF s[i] = "N" THEN
    Only({AfterMember(s, i + 1, d) : d \in {DictPut(keys, items, "name", Str("X"))}})
  ELSE IF s[i] = "K" THEN
    Only({IF r.v.k = "error" THEN Bad
          ELSE Only({AfterMember(s, r.p, d) : d \in {DictPut(keys, items, "o", r.v)}}) :
            r \in {ParseValue(s, SkipWs(s, i + 1))}})
  ELSE Bad

\* json.loads(s): one value between optional whitespace, nothing after it
JsonLoads(s) ==
  Only({IF r.v.k = "error" THEN ParseError
        ELSE IF SkipWs(s, r.p) <= Len(s) THEN ParseError
        ELSE r.v : r \in {ParseValue(s, SkipWs(s, 1))}})

\* ------------------------------------------------------------------------
\* The two regular expressions of extract_json_from_text
\* ------------------------------------------------------------------------
\* first position >= p of s that holds a fence marker, 0 when none
NextFence(s, p) ==
  Only({IF fs = {} THEN 0 ELSE Min(fs) : fs \in {{j \in p..Len(s) : s[j] = "F"}}})

\* ```(?:json)?\s*([\s\S]+?)``` tried at the marker s[i]: where group 1
\* starts, 0 when the expression does not match there.  (?:json)? and \s* are
\* greedy and give back what they took, the tag last, until a closing marker
\* follows at least one character of group 1.
FenceGroupStart(s, i) ==
  Only({IF i + 1 <= Len(s) /\ s[i + 1] = "J" /\ withTag # {} THEN Max(withTag)
        ELSE IF noTag # {} THEN Max(noTag)
        ELSE 0 :
          withTag \in {{g \in (i + 2)..SkipWs(s, i + 2) : NextFence(s, g + 1) # 0}},
          noTag \in {{g \in (i + 1)..SkipWs(s, i + 1) : NextFence(s, g + 1) # 0}}})

\* the search with a greedy group 1, ([\s\S]+): it ends before the last marker
FenceSearchGreedy(s) ==
  Only({IF starts = {} THEN [found |-> FALSE, group |-> <<>>]
        ELSE Only({[found |-> TRUE,
                    group |-> SubSeq(s, g, Max({j \in 1..Len(s) : s[j] = "F"}) - 1)] :
                     g \in {FenceGroupStart(s, Min(starts))}}) :
          starts \in {{i \in 1..Len(s) : s[i] = "F" /\ FenceGroupStart(s, i) # 0}}})

\* re.search(r"```(?:json)?\s*([\s\S]+?)```", text): the leftmost match.
\* found, and group(1), which ends before the first closing marker.
FenceSearch(s) ==
  Only({IF starts = {} THEN [found |-> FALSE, group |-> <<>>]
        ELSE Only({[found |-> TRUE, group |-> SubSeq(s, g, NextFence(s, g + 1) - 1)] :
                     g \in {FenceGroupStart(s, Min(starts))}}) :
          starts \in {{i \in 1..Len(s) : s[i] = "F" /\ FenceGroupStart(s, i) # 0}}})

\* (\[\s*{[\s\S]+?}\s*]) tried at the bracket s[i]: the position of the
\* closing bracket of the shortest match, 0 when there is none.  At least
\* one character lies between the opening and the closing brace.
ArrayMatchEnd(s, i) ==
  Only({IF b > Len(s) \/ s[b] # "{" THEN 0
        ELSE Only({IF ends = {} THEN 0 ELSE SkipWs(s, Min(ends) + 1) :
                     ends \in {{e \in (b + 2)..Len(s) :
                                  /\ s[e] = "}"
                                  /\ SkipWs(s, e + 1) <= Len(s)
                                  /\ s[SkipWs(s, e + 1)] = "]"}}}) :
          b \in {SkipWs(s, i + 1)}})

\* re.search(r"(\[\s*{[\s\S]+?}\s*])", text): the leftmost match
ArraySearch(s) ==
  Only({IF starts = {} THEN [found |-> FALSE, group |-> <<>>]
        ELSE [found |-> TRUE, group |-> SubSeq(s, Min(starts), ArrayMatchEnd(s, Min(starts)))] :
          starts \in {{i \in 1..Len(s) : s[i] = "[" /\ ArrayMatchEnd(s, i) # 0}}})

\* extract_json_from_text(text).  An exception of json.loads in any of the
\* three places is caught by the one handler, which returns [].
extract_json_from_text(text) ==
  Only({IF loaded.k = "error" THEN Arr(<<>>) ELSE loaded :
          loaded \in {Only({IF fence.found THEN JsonLoads(fence.group)
                            ELSE Only({IF array.found THEN JsonLoads(array.group)
                                       ELSE JsonLoads(text) :
                                         array \in {ArraySearch(text)}}) :
                              fence \in {FenceSearch(text)}})}})

\* ------------------------------------------------------------------------
\* The loop of abap_declarations_api that removes `type`
\* ------------------------------------------------------------------------
\* an exception that leaves the handler
Crash == [k |-> "crash", a |-> "", n |-> 0, keys |-> <<>>, items |-> <<>>]

\* decl.pop("type", None) on a dict
PopType(d) ==
  Only({Obj([j \in 1..Len(idx) |-> d.keys[idx[j]]], [j \in 1..Len(idx) |-> d.items[idx[j]]]) :
          idx \in {SelectSeq([i \in 1..Len(d.keys) |-> i], LAMBDA i : d.keys[i] # "type")}})

\* for decl in declarations: decl.pop("type", None)
\* A number is not iterable; a dict yields its keys, which are strings and
\* have no pop; neither has a number, and list.pop takes no default; only a
\* dict element is popped.
RemoveTypeLoop(declarations) ==
  IF declarations.k = "arr"
  THEN IF \A i \in 1..Len(declarations.items) : declarations.items[i].k = "obj"
       THEN Arr([i \in 1..Len(declarations.items) |-> PopType(declarations.items[i])])
       ELSE Crash
  ELSE IF declarations.k = "obj" /\ declarations.keys = <<>> THEN declarations
  ELSE Crash

\* ------------------------------------------------------------------------
\* The response rendering and the request checks
\* ------------------------------------------------------------------------
RECURSIVE Dumps(_), DumpsJoin(_, _, _)

\* JSONResponse(content=...) renders with json.dumps and the separators
\* "," and ":": no whitespace anywhere.  Strings occur only as the values
\* of `type` and `name`, which render as the members "T" and "N".
Dumps(v) ==
  IF v.k = "num" THEN <<"0">>
  ELSE IF v.k = "arr" THEN <<"[">> \o DumpsJoin(v, 1, FALSE) \o <<"]">>
  ELSE <<"{">> \o DumpsJoin(v, 1, TRUE) \o <<"}">>

\* items i.. of an array, or members i.. of a dict, joined by ","
DumpsJoin(v, i, members) ==
  IF i > Len(v.items) THEN <<>>
  ELSE (IF i > 1 THEN <<",">> ELSE <<>>)
       \o (IF ~members THEN Dumps(v.items[i])
           ELSE IF v.keys[i] = "type" THEN <<"T">>
           ELSE IF v.keys[i] = "name" THEN <<"N">>
           ELSE <<"K">> \o Dumps(v.items[i]))
       \o DumpsJoin(v, i + 1, members)

\* code.strip()
RECURSIVE Strip(_)
Strip(code) ==
  IF code = <<>> THEN <<>>
  ELSE IF IsWs(Head(code)) THEN Strip(Tail(code))
  ELSE IF IsWs(code[Len(code)]) THEN Strip(SubSeq(code, 1, Len(code) - 1))
  ELSE code

\* not isinstance(code, str) or not code.strip()
IsBlankNoStrip(code) == code = <<>>
IsBlank(code) == Strip(code) = <<>>

\* abap_lm_prompt(code): the fixed instructions, then the code verbatim
abap_lm_prompt(code) == <<"instructions">> \o code

\* ------------------------------------------------------------------------
\* Bounds and inputs
\* ------------------------------------------------------------------------
\* requests in flight at once
NumReq == 2
\* elements of a top-level array in a model reply
MaxElems == 2

ReqIds == 1..NumReq

\* `code` of a request: empty, blank, code, code between whitespace
Codes == {<<>>, <<"W">>, <<"c">>, <<"W", "c", "W">>}

\* the request body (class ABAPCode): code and the three identifiers
Inputs ==
  {[code |-> c, pgm_name |-> i[1], inc_name |-> i[2], type |-> i[3]] :
     c \in Codes, i \in {<<"ZP1", "ZI1", "R">>, <<"ZP2", "ZI2", "I">>}}

ObjN == Obj(<<"name">>, <<Str("X")>>)
ObjTN == Obj(<<"type", "name">>, <<Str("P"), Str("X")>>)

\* what the model may put in an array: declarations with and without `type`,
\* an empty object, objects holding a nested array or a nested object, and
\* an element that is no object
Elems ==
  {Obj(<<>>, <<>>), ObjN, ObjTN,
   Obj(<<"o">>, <<Arr(<<ObjN>>)>>),
   Obj(<<"type", "o">>, <<Str("P"), Obj(<<"type">>, <<Str("P")>>)>>),
   Num(0)}

\* the JSON the model replies with: an array, or a bare number or object
Payloads ==
  {Arr(items) : items \in UNION {[1..m -> Elems] : m \in 0..MaxElems}}
    \cup {Num(0), ObjN}

\* what the model writes around the JSON: prose or an earlier fenced block
\* before it, a fence opener (tagged or not), a closing marker, and prose, a
\* second fenced block or a second array after it
Leads == {<<>>, <<"x", "W">>, <<"F", "x", "F", "W">>}
Opens == {<<>>, <<"F">>, <<"F", "J">>, <<"F", "J", "W">>}
Closes == {<<>>, <<"F">>, <<"W", "F">>}
Trails ==
  {<<>>, <<"W", "x">>,
   <<"W", "F", "[", "{", "T", "}", "]", "F">>,
   <<"W", "[", "{", "T", "}", "]">>}

Samples == [lead : Leads, open : Opens, core : Payloads, close : Closes, trail : Trails]

\* response.choices[0].message.content for a sample
Render(sm) == sm.lead \o sm.open \o Dumps(sm.core) \o sm.close \o sm.trail

\* the replies the endpoint model draws from
ReplyTexts ==
  {Render([lead |-> <<>>, open |-> <<>>, core |-> Arr(<<ObjTN, ObjN>>),
           close |-> <<>>, trail |-> <<>>]),
   Render([lead |-> <<>>, open |-> <<"F", "J", "W">>, core |-> Arr(<<ObjTN>>),
           close |-> <<"W", "F">>, trail |-> <<>>]),
   Render([lead |-> <<"x", "W">>, open |-> <<>>, core |-> Arr(<<Num(0)>>),
           close |-> <<>>, trail |-> <<>>]),
   <<"0">>,
   <<"x", "W", "x">>}

\* ------------------------------------------------------------------------
\* State
\* ------------------------------------------------------------------------
VARIABLES
  req,          \* req[r]: the body of request r (input), NoInput before it arrives
  pc,           \* pc[r]: "idle", "calling", "returned", "failed", "done"
  prompt,       \* prompt[r]: the prompt handed to _call_openai, <<>> before
  reply,        \* reply[r]: whether _call_openai returned, and resp_text
  response,     \* response[r]: the HTTP response of request r
  sample,       \* how the text under extraction was put together
  text,         \* the argument of extract_json_from_text
  phase,        \* "off", "text", "extracted", "sanitized", "reextracted"
  declarations, \* what extract_json_from_text returned
  sanitized,    \* declarations after the loop that removes `type`
  again         \* extract_json_from_text of the re-serialized declarations

vars == <<req, pc, prompt, reply, response, sample, text, phase, declarations,
          sanitized, again>>
reqVars == <<req, pc, prompt, reply, response>>
extVars == <<sample, text, phase, declarations, sanitized, again>>

Unset == [k |-> "none", a |-> "", n |-> 0, keys |-> <<>>, items |-> <<>>]
NoReply == [got |-> FALSE, text |-> <<>>]
NoInput == [code |-> <<>>, pgm_name |-> "", inc_name |-> "", type |-> ""]
NoResponse ==
  [status |-> 0, pgm_name |-> "", inc_name |-> "", type |-> "", selectionscreen |-> Unset]
NoSample == [lead |-> <<>>, open |-> <<>>, core |-> Unset, close |-> <<>>, trail |-> <<>>]

\* raise HTTPException(status_code=400, ...)
BadRequest == [NoResponse EXCEPT !.status = 400]
\* an exception that leaves the handler: the framework answers 500
ServerError == [NoResponse EXCEPT !.status = 500]

\* the handler's locals pgm_name, inc_name, type_field of request r
LocalsShared(r) == IF req[1] # NoInput THEN req[1] ELSE req[r]
Locals(r) == req[r]

\* response_body and JSONResponse(content=response_body)
response_body(r, decls) ==
  [status |-> 200,
   pgm_name |-> Locals(r).pgm_name,
   inc_name |-> Locals(r).inc_name,
   type |-> Locals(r).type,
   selectionscreen |-> decls]

ReqInit ==
  /\ req = [r \in ReqIds |-> NoInput]
  /\ pc = [r \in ReqIds |-> "idle"]
  /\ prompt = [r \in ReqIds |-> <<>>]
  /\ reply = [r \in ReqIds |-> NoReply]
  /\ response = [r \in ReqIds |-> NoResponse]

ExtOff ==
  /\ sample = NoSample
  /\ text = <<>>
  /\ phase = "off"
  /\ declarations = Unset
  /\ sanitized = Unset
  /\ again = Unset

\* ------------------------------------------------------------------------
\* The endpoint: one request is the coroutine abap_declarations_api, which
\* runs to its await, waits for the thread that calls the model, and resumes
\* ------------------------------------------------------------------------
\* abap_declarations_api up to `await run_in_threadpool(_call_openai)`:
\* the check of `code`, then the prompt and the start of the model call
Post(r, input) ==
  /\ pc[r] = "idle"
  /\ req' = [req EXCEPT ![r] = input]
  /\ IF IsBlank(input.code)
     THEN /\ response' = [response EXCEPT ![r] = BadRequest]
          /\ pc' = [pc EXCEPT ![r] = "done"]
          /\ UNCHANGED prompt
     ELSE /\ prompt' = [prompt EXCEPT ![r] = abap_lm_prompt(input.code)]
          /\ pc' = [pc EXCEPT ![r] = "calling"]
          /\ UNCHANGED response
  /\ UNCHANGED <<reply, extVars>>

\* _call_openai returns in its thread: the reply is any text
ModelReplies(r, t) ==
  /\ pc[r] = "calling"
  /\ reply' = [reply EXCEPT ![r] = [got |-> TRUE, text |-> t]]
  /\ pc' = [pc EXCEPT ![r] = "returned"]
  /\ UNCHANGED <<req, prompt, response, extVars>>

\* _call_openai raises in its thread (network, auth, quota)
ModelFails(r) ==
  /\ pc[r] = "calling"
  /\ pc' = [pc EXCEPT ![r] = "failed"]
  /\ UNCHANGED <<req, prompt, reply, response, extVars>>

\* what the resumed coroutine answers: the exception of the model call or of
\* the loop leaves the handler (500), otherwise the response body
Answer(r) ==
  Only({IF pc[r] = "failed" \/ decls = Crash THEN ServerError
        ELSE response_body(r, decls) :
          decls \in {RemoveTypeLoop(extract_json_from_text(reply[r].text))}})

\* the coroutine resumes: extract_json_from_text, the loop that removes
\* `type`, and the response
Resume(r) ==
  /\ pc[r] \in {"returned", "failed"}
  /\ response' = [response EXCEPT ![r] = Answer(r)]
  /\ pc' = [pc EXCEPT ![r] = "done"]
  /\ UNCHANGED <<req, prompt, reply, extVars>>

Init == ReqInit /\ ExtOff

Next ==
  \/ \E r \in ReqIds, input \in Inputs : Post(r, input)
  \/ \E r \in ReqIds, t \in ReplyTexts : ModelReplies(r, t)
  \/ \E r \in ReqIds : ModelFails(r)
  \/ \E r \in ReqIds : Resume(r)

Spec == Init /\ [][Next]_vars

\* ------------------------------------------------------------------------
\* extract_json_from_text and the loop on their own, over every sample
\* ------------------------------------------------------------------------
ExtInit ==
  /\ ReqInit
  /\ sample \in Samples
  /\ text = Render(sample)
  /\ phase = "text"
  /\ declarations = Unset
  /\ sanitized = Unset
  /\ again = Unset

\* declarations = extract_json_from_text(resp_text)
Extract ==
  /\ phase = "text"
  /\ declarations' = extract_json_from_text(text)
  /\ phase' = "extracted"
  /\ UNCHANGED <<sample, text, sanitized, again, reqVars>>

\* for decl in declarations: decl.pop("type", None)
Sanitize ==
  /\ phase = "extracted"
  /\ sanitized' = RemoveTypeLoop(declarations)
  /\ phase' = "sanitized"
  /\ UNCHANGED <<sample, text, declarations, again, reqVars>>

\* the extractor run on the rendering of an array it returned
ReExtract ==
  /\ phase = "extracted"
  /\ declarations.k = "arr"
  /\ again' = extract_json_from_text(Dumps(declarations))
  /\ phase' = "reextracted"
  /\ UNCHANGED <<sample, text, declarations, sanitized, reqVars>>

ExtNext == Extract \/ Sanitize \/ ReExtract

SpecExtract == ExtInit /\ [][ExtNext]_vars

\* ------------------------------------------------------------------------
\* Properties
\* ------------------------------------------------------------------------
AllWhitespace(code) == \A i \in 1..Len(code) : code[i] = "W"

IsObjArray(v) == v.k = "arr" /\ \A i \in 1..Len(v.items) : v.items[i].k = "obj"

HasFence(s) == \E i \in 1..Len(s) : s[i] = "F"

\* a dict's keys and values without one key
RECURSIVE DropKey(_, _, _)
DropKey(keys, items, key) ==
  IF keys = <<>> THEN [ks |-> <<>>, vs |-> <<>>]
  ELSE LET rest == DropKey(Tail(keys), Tail(items), key)
       IN IF Head(keys) = key THEN rest
          ELSE [ks |-> <<Head(keys)>> \o rest.ks, vs |-> <<Head(items)>> \o rest.vs]

\* the objects of an array, in order, each without its `type`
RECURSIVE WithoutType(_)
WithoutType(items) ==
  IF items = <<>> THEN <<>>
  ELSE LET d == DropKey(Head(items).keys, Head(items).items, "type")
       IN <<Obj(d.ks, d.vs)>> \o WithoutType(Tail(items))

\* C1: a request whose `code` is empty or whitespace-only ends with HTTP 400,
\* and the model call is never started for it: no prompt is handed to
\* _call_openai and no reply is received.
C1_BlankCodeRejectedBeforeModelCall ==
  \A r \in ReqIds :
    (pc[r] # "idle" /\ AllWhitespace(req[r].code)) =>
      /\ pc[r] = "done"
      /\ response[r].status = 400
      /\ prompt[r] = <<>>
      /\ ~reply[r].got

\* a whitespace-only request has been answered
C1_Witness ==
  \E r \in ReqIds :
    pc[r] = "done" /\ req[r].code = <<"W">> /\ response[r].status = 400

\* C2: once the model has replied to a request, whatever the reply, the
\* endpoint answers HTTP 200 with the request's pgm_name, inc_name and type.
C2_AnyReplySucceeds ==
  \A r \in ReqIds :
    (pc[r] = "done" /\ reply[r].got) =>
      /\ response[r].status = 200
      /\ response[r].pgm_name = req[r].pgm_name
      /\ response[r].inc_name = req[r].inc_name
      /\ response[r].type = req[r].type

\* C3: what extract_json_from_text returns is always a sequence (a JSON
\* array), never an object or a number.
C3_AlwaysSequence ==
  phase \in {"extracted", "sanitized", "reextracted"} => declarations.k = "arr"

\* C4: the three strategies are a fallback chain: when the fenced block does
\* not parse, the embedded array that the scan finds and that parses is the
\* result; when the scanned array does not parse, the whole text, if it
\* parses, is the result.
C4_FallbackChain ==
  phase = "extracted" =>
    LET fence == FenceSearch(text)
        array == ArraySearch(text)
    IN /\ (/\ fence.found
           /\ JsonLoads(fence.group).k = "error"
           /\ array.found
           /\ JsonLoads(array.group).k # "error")
          => declarations = JsonLoads(array.group)
       /\ (/\ ~fence.found
           /\ array.found
           /\ JsonLoads(array.group).k = "error"
           /\ JsonLoads(text).k # "error")
          => declarations = JsonLoads(text)

\* C5: when none of the three attempts yields an array (no match, malformed
\* JSON, or a parsed value that is no array), the result is the empty
\* sequence.
C5_AllAttemptsFailGivesEmpty ==
  phase = "extracted" =>
    LET fence == FenceSearch(text)
        array == ArraySearch(text)
        one == fence.found /\ JsonLoads(fence.group).k = "arr"
        two == array.found /\ JsonLoads(array.group).k = "arr"
        three == JsonLoads(text).k = "arr"
    IN ~(one \/ two \/ three) => declarations = Arr(<<>>)

\* C6: over any extracted sequence the loop never fails, removes `type` from
\* every element that has it, and leaves every other element as it was,
\* elements that are no objects included.
C6_LoopNeverFails ==
  (phase = "sanitized" /\ declarations.k = "arr") =>
    /\ sanitized.k = "arr"
    /\ Len(sanitized.items) = Len(declarations.items)
    /\ \A i \in 1..Len(declarations.items) :
         /\ \A j \in 1..Len(sanitized.items[i].keys) :
              sanitized.items[i].keys[j] # "type"
         /\ (\A j \in 1..Len(declarations.items[i].keys) :
               declarations.items[i].keys[j] # "type")
            => sanitized.items[i] = declarations.items[i]

\* C7: the extractor run on the re-serialization of an array it returned
\* returns that array again.
C7_Idempotent ==
  phase = "reextracted" => again = declarations

\* C8: in a text whose first fenced block (tagged json or not) holds a JSON
\* array of objects, the extractor and the loop return exactly those objects,
\* in order, each without `type`, whatever follows the block; when an earlier
\* fenced block holds no JSON, only that one is tried and the result is
\* empty.
C8_FirstFencedBlockDecides ==
  (/\ phase = "sanitized"
   /\ sample.open # <<>>
   /\ sample.close # <<>>
   /\ IsObjArray(sample.core)) =>
    IF HasFence(sample.lead)
    THEN declarations = Arr(<<>>) /\ sanitized = Arr(<<>>)
    ELSE /\ declarations = sample.core
         /\ sanitized = Arr(WithoutType(sample.core.items))

\* a tagged fenced block of two objects, followed by a second fenced block,
\* has been extracted and sanitized
C8_Witness ==
  /\ phase = "sanitized"
  /\ sample.lead = <<"x", "W">>
  /\ sample.open = <<"F", "J", "W">>
  /\ sample.core = Arr(<<ObjTN, ObjN>>)
  /\ sample.close = <<"F">>
  /\ HasFence(sample.trail)
  /\ sanitized = Arr(<<ObjN, ObjN>>)

\* C9: in a text without fences that holds an array of objects between
\* prose, the result is exactly that array's objects, each without `type`,
\* nested arrays and objects and a second array after it included.
C9_EmbeddedArrayReturned ==
  (/\ phase = "sanitized"
   /\ sample.open = <<>>
   /\ sample.close = <<>>
   /\ ~HasFence(sample.lead)
   /\ ~HasFence(sample.trail)
   /\ IsObjArray(sample.core)
   /\ sample.core.items # <<>>) =>
    sanitized = Arr(WithoutType(sample.core.items))

====
